---- MODULE Spec2Model ----
(***************************************************************************)
(* Model of src/script.py: class CPU, a four-register machine whose        *)
(* control unit memoises ALU results in a dictionary keyed by              *)
(* (instruction, operand value, operand value).                            *)
(*                                                                         *)
(* Numbers.  A Python number is modelled as a record [n, d, t]: the        *)
(* reduced fraction n/d (d > 0) and its Python type t ("int" or "float").  *)
(* An int has d = 1.  A float whose d is a power of two is held exactly by *)
(* a binary double; a float with any other d stands for fl(n/d), the       *)
(* double nearest to n/d, which is what int/int true division returns.     *)
(* Python compares and hashes 2 and 2.0 as equal, so dictionary keys use   *)
(* the fraction <<n, d>> without the type.                                 *)
(***************************************************************************)
EXTENDS Integers, Sequences, FiniteSets, TLC

\* Largest numerator magnitude and denominator of a number the model computes.
MaxVal == 100

\* Number of calls made on the machine in one behaviour.
MaxSteps == 3

\* len(self.registers)
NumRegs == 4

Abs(x) == IF x < 0 THEN -x ELSE x

RECURSIVE Gcd(_, _)
Gcd(a, b) == IF b = 0 THEN a ELSE Gcd(b, a % b)

RECURSIVE IsPow2(_)
IsPow2(k) == IF k = 1 THEN TRUE ELSE IF k % 2 = 1 THEN FALSE ELSE IsPow2(k \div 2)

\* The value None (an absent operand or result).
None == [n |-> 0, d |-> 0, t |-> "None"]

\* The Python int k.
PyInt(k) == [n |-> k, d |-> 1, t |-> "int"]

\* The number num/den (den /= 0) of type t, in lowest terms.
Frac(num, den, t) ==
    LET s == IF den < 0 THEN -1 ELSE 1
        g == Gcd(Abs(num), Abs(den))
    IN  [n |-> (s * num) \div g, d |-> (s * den) \div g, t |-> t]

\* float if either operand is a float (Python's numeric coercion).
Coerce(a, b) == IF a.t = "float" \/ b.t = "float" THEN "float" ELSE "int"

\* The value as dictionary keys see it: 2 == 2.0 and hash(2) == hash(2.0).
Num(v) == <<v.n, v.d>>

IsZero(v) == v.n = 0

\* A number the model holds exactly (every int; a float with a dyadic value).
IsExact(v) == v.t = "int" \/ (v.t = "float" /\ IsPow2(v.d))

\* floor(num/den) for den > 0.
Floor(num, den) == num \div den

RECURSIVE Power(_, _)
Power(x, e) == IF e = 0 THEN 1 ELSE x * Power(x, e - 1)

\* x^e for x >= 0, e >= 0, cut off once it passes MaxVal (never above MaxVal^2).
RECURSIVE CapPower(_, _)
CapPower(x, e) ==
    IF e = 0 THEN 1
    ELSE LET p == CapPower(x, e - 1) IN IF p > MaxVal THEN p ELSE p * x

\* Python's & and | on ints of either sign (two's complement, unbounded width).
RECURSIVE BitAnd(_, _)
BitAnd(x, y) ==
    IF x = 0 \/ y = 0 THEN 0
    ELSE IF x = -1 THEN y
    ELSE IF y = -1 THEN x
    ELSE ((x % 2) * (y % 2)) + 2 * BitAnd(x \div 2, y \div 2)

RECURSIVE BitOr(_, _)
BitOr(x, y) ==
    IF x = 0 THEN y
    ELSE IF y = 0 THEN x
    ELSE IF x = -1 \/ y = -1 THEN -1
    ELSE (IF x % 2 = 1 \/ y % 2 = 1 THEN 1 ELSE 0) + 2 * BitOr(x \div 2, y \div 2)

(***************************************************************************)
(* Outcomes of a call: "ok", or the exception it raises.                   *)
(***************************************************************************)
OK == "ok"
IndexError == "IndexError: list index out of range"
InvalidRegister == "ValueError: Invalid register index"
UnknownInstruction == "ValueError: Unknown instruction"
DivideByZero == "ValueError: Can't divide by zero"
ZeroDivisionError == "ZeroDivisionError"
TypeError == "TypeError: unsupported operand type(s)"

Return(v) == [err |-> OK, val |-> v]
Raise(e) == [err |-> e, val |-> None]

(***************************************************************************)
(* ALU operations (script.py lines 73-106).                                *)
(***************************************************************************)
add(a, b) == Return(Frac(a.n * b.d + b.n * a.d, a.d * b.d, Coerce(a, b)))

\* sub with its operands the wrong way round.
sub_Reversed(a, b) == Return(Frac(b.n * a.d - a.n * b.d, a.d * b.d, Coerce(a, b)))

sub(a, b) == Return(Frac(a.n * b.d - b.n * a.d, a.d * b.d, Coerce(a, b)))

\* mul carried out as an addition.
mul_Adds(a, b) == Return(Frac(a.n * b.d + b.n * a.d, a.d * b.d, Coerce(a, b)))

mul(a, b) == Return(Frac(a.n * b.n, a.d * b.d, Coerce(a, b)))

\* div guarding the dividend instead of the divisor.
div_ChecksDividend(a, b) ==
    IF IsZero(a) THEN Raise(DivideByZero)
    ELSE IF IsZero(b) THEN Raise(ZeroDivisionError)
    ELSE Return(Frac(a.n * b.d, a.d * b.n, "float"))

\* div as floor division (a // b), which keeps ints int.
div_Floors(a, b) ==
    IF IsZero(b) THEN Raise(DivideByZero)
    ELSE LET s == IF b.n < 0 THEN -1 ELSE 1
         IN  Return(PyInt(Floor(s * a.n * b.d, s * a.d * b.n)))

\* a / b is Python 3 true division: always a float.
div(a, b) ==
    IF IsZero(b) THEN Raise(DivideByZero)
    ELSE Return(Frac(a.n * b.d, a.d * b.n, "float"))

\* a % b is floored: a - b * floor(a / b), with the sign of b.
mod(a, b) ==
    IF IsZero(b) THEN Raise(DivideByZero)
    ELSE LET s == IF b.n < 0 THEN -1 ELSE 1
             q == Floor(s * a.n * b.d, s * a.d * b.n)
         IN  Return(Frac(a.n * b.d - q * b.n * a.d, a.d * b.d, Coerce(a, b)))

\* a ** b for an integral exponent b (a negative exponent gives a float;
\* zero to a negative power raises ZeroDivisionError).
pow(a, b) ==
    IF b.n >= 0
    THEN Return(Frac(Power(a.n, b.n), Power(a.d, b.n), Coerce(a, b)))
    ELSE IF IsZero(a) THEN Raise(ZeroDivisionError)
    ELSE Return(Frac(Power(a.d, -b.n), Power(a.n, -b.n), "float"))

logi_and(a, b) ==
    IF a.t = "float" \/ b.t = "float" THEN Raise(TypeError)
    ELSE Return(PyInt(BitAnd(a.n, b.n)))

logi_or(a, b) ==
    IF a.t = "float" \/ b.t = "float" THEN Raise(TypeError)
    ELSE Return(PyInt(BitOr(a.n, b.n)))

\* The instructions _alu_dispatch routes, and the helpers it does not.
Wired == {"ADD", "SUB", "MUL", "DIV", "MOD", "POW", "AND", "OR"}
Unwired == {"SQRT", "LOG"}

\* _alu_dispatch whose final else falls back to an operation instead of raising.
_alu_dispatch_DefaultsToAdd(instruction, a, b) ==
    IF instruction = "SUB" THEN sub(a, b)
    ELSE IF instruction = "MUL" THEN mul(a, b)
    ELSE IF instruction = "DIV" THEN div(a, b)
    ELSE IF instruction = "MOD" THEN mod(a, b)
    ELSE IF instruction = "POW" THEN pow(a, b)
    ELSE IF instruction = "AND" THEN logi_and(a, b)
    ELSE IF instruction = "OR" THEN logi_or(a, b)
    ELSE add(a, b)

_alu_dispatch(instruction, a, b) ==
    IF instruction = "ADD" THEN add(a, b)
    ELSE IF instruction = "SUB" THEN sub(a, b)
    ELSE IF instruction = "MUL" THEN mul(a, b)
    ELSE IF instruction = "DIV" THEN div(a, b)
    ELSE IF instruction = "MOD" THEN mod(a, b)
    ELSE IF instruction = "POW" THEN pow(a, b)
    ELSE IF instruction = "AND" THEN logi_and(a, b)
    ELSE IF instruction = "OR" THEN logi_or(a, b)
    ELSE Raise(UnknownInstruction)

\* A number within the model's magnitude bound.
Fits(v) == Abs(v.n) <= MaxVal /\ v.d <= MaxVal

\* The ALU calls whose outcome the model represents: exact operands, an
\* integral exponent, and a result within MaxVal.  Python itself has no such
\* limit (ints are unbounded); calls outside it are simply not explored.
Computable(instruction, a, b) ==
    IF instruction \notin Wired THEN TRUE
    ELSE IF instruction \in {"AND", "OR"} /\ (a.t = "float" \/ b.t = "float") THEN TRUE
    ELSE IF instruction \in {"DIV", "MOD"} /\ IsZero(b) THEN TRUE
    ELSE IF ~(IsExact(a) /\ IsExact(b)) THEN FALSE
    ELSE IF instruction = "POW"
         THEN /\ b.d = 1
              /\ Abs(b.n) <= MaxVal
              /\ CapPower(Abs(a.n), Abs(b.n)) <= MaxVal
              /\ CapPower(a.d, Abs(b.n)) <= MaxVal
         ELSE Fits(_alu_dispatch(instruction, a, b).val)

(***************************************************************************)
(* The machine: CPU.__init__, load, get_register, control_unit.            *)
(***************************************************************************)
VARIABLES
    registers,  \* self.registers: slot 0..3 -> number
    cache,      \* self.cache: key <<instruction, Num(a), Num(b)>> -> number
    computed,   \* history: key -> the result the first successful call computed for it
    last,       \* the last call: its arguments, the state it started in, what it did
    steps,      \* number of calls made so far
    other       \* a second CPU object: its registers and its cache

vars == <<registers, cache, computed, last, steps, other>>

Slots == 0 .. (NumRegs - 1)

\* The empty dict.
EmptyDict == [k \in {} |-> None]

\* An optional argument: <<>> when the caller leaves it out (None), <<d>> otherwise.
Omitted == <<>>
Given(d) == <<d>>

\* The range test without its lower bound.
ValidRegister_NoLowerBound(reg_index) == reg_index < NumRegs

\* if 0 <= reg_index < len(self.registers)  (load and get_register)
ValidRegister(reg_index) == 0 <= reg_index /\ reg_index < NumRegs

\* self.registers[i] on a Python list: -len..len-1 are accepted, negative
\* indices count from the end; anything else raises IndexError.
ListIndexOK(i) == -NumRegs <= i /\ i < NumRegs
ListSlot(i) == IF i < 0 THEN i + NumRegs ELSE i

\* An item assignment that spills into the following slot.
ListStore_Spills(regs, i, v) ==
    [k \in DOMAIN regs |->
        IF k = ListSlot(i) \/ k = ListSlot(i) + 1 THEN v ELSE regs[k]]

\* self.registers[i] = v  (i an accepted list index)
ListStore(regs, i, v) == [regs EXCEPT ![ListSlot(i)] = v]

\* cache_key = (instruction, val_a, val_b)
CacheKey(instruction, val_a, val_b) == <<instruction, Num(val_a), Num(val_b)>>

\* A lookup that never finds the key.
CacheHas_Never(c, key) == FALSE

\* cache_key in self.cache
CacheHas(c, key) == key \in DOMAIN c

\* A store that is never made.
CacheStore_Skipped(c, key, result) == c

\* A store that files the result under the operands in the wrong order.
CacheStore_SwappedKey(c, key, result) ==
    [k \in DOMAIN c \cup {<<key[1], key[3], key[2]>>} |->
        IF k = <<key[1], key[3], key[2]>> THEN result ELSE c[k]]

\* A store that replaces the dictionary instead of adding to it.
CacheStore_Clobbers(c, key, result) == [k \in {key} |-> result]

\* self.cache[cache_key] = result
CacheStore(c, key, result) ==
    [k \in DOMAIN c \cup {key} |-> IF k = key THEN result ELSE c[k]]

\* The destination chosen by truthiness (dest_reg_index or reg_a_index), which
\* takes an explicit 0 for no destination.
TargetReg_Truthy(dest_reg_index, reg_a_index) ==
    IF dest_reg_index /= Omitted /\ dest_reg_index[1] /= 0
    THEN dest_reg_index[1] ELSE reg_a_index

\* target_reg = dest_reg_index if dest_reg_index is not None else reg_a_index
TargetReg(dest_reg_index, reg_a_index) ==
    IF dest_reg_index /= Omitted THEN dest_reg_index[1] ELSE reg_a_index

\* What a call records about itself: its arguments, the operand values it
\* fetched, the hit/miss line it printed, how it ended, the registers and the
\* cache it started from, whether it went through _alu_dispatch, and whether it
\* repeats the arguments of a successful control_unit call made just before it.
Call(name, instruction, ra, rb, dest, value, va, vb, signal, outcome, result, dispatched) ==
    [ call |-> name, instruction |-> instruction,
      reg_a_index |-> ra, reg_b_index |-> rb, dest_reg_index |-> dest,
      value |-> value, val_a |-> va, val_b |-> vb,
      signal |-> signal, outcome |-> outcome, result |-> result,
      registers |-> registers, cache |-> cache, dispatched |-> dispatched,
      repeat |-> /\ name = "control_unit"
                 /\ last.call = "control_unit"
                 /\ last.outcome = OK
                 /\ last.instruction = instruction
                 /\ last.reg_a_index = ra
                 /\ last.reg_b_index = rb
                 /\ last.dest_reg_index = dest ]

\* A class that binds the cache in its body instead of in __init__.
ClassAttributes_Cache == {"cache"}

\* The state attributes bound in the class body, which every instance shares.
\* The class body binds methods only; __init__ binds self.registers and
\* self.cache anew for each instance (lines 6 and 8).
ClassAttributes == {}

\* The second CPU object once this one holds regs and c: an attribute of the
\* class is the same object in both, an attribute of the instance is its own.
OtherAfter(regs, c) ==
    [ registers |-> IF "registers" \in ClassAttributes THEN regs ELSE other.registers,
      cache |-> IF "cache" \in ClassAttributes THEN c ELSE other.cache ]

Init ==
    /\ registers = [i \in Slots |-> PyInt(0)]
    /\ cache = EmptyDict
    /\ computed = EmptyDict
    /\ last = [ call |-> "__init__", instruction |-> "",
                reg_a_index |-> 0, reg_b_index |-> 0, dest_reg_index |-> Omitted,
                value |-> None, val_a |-> None, val_b |-> None,
                signal |-> "", outcome |-> OK, result |-> None,
                registers |-> [i \in Slots |-> PyInt(0)], cache |-> EmptyDict,
                dispatched |-> FALSE, repeat |-> FALSE ]
    /\ steps = 0
    /\ other = [ registers |-> [i \in Slots |-> PyInt(0)], cache |-> EmptyDict ]

\* cpu.load(reg_index, value)
load(reg_index, value) ==
    /\ steps' = steps + 1
    /\ IF ValidRegister(reg_index)
       THEN /\ registers' = ListStore(registers, reg_index, value)
            /\ last' = Call("load", "", reg_index, 0, Omitted, value, None, None,
                            "", OK, None, FALSE)
       ELSE /\ registers' = registers
            /\ last' = Call("load", "", reg_index, 0, Omitted, value, None, None,
                            "", InvalidRegister, None, FALSE)
    /\ UNCHANGED <<cache, computed>>
    /\ other' = OtherAfter(registers', cache')

\* cpu.get_register(reg_index)
get_register(reg_index) ==
    /\ steps' = steps + 1
    /\ IF ValidRegister(reg_index)
       THEN last' = Call("get_register", "", reg_index, 0, Omitted, None, None, None,
                         "", OK, registers[ListSlot(reg_index)], FALSE)
       ELSE last' = Call("get_register", "", reg_index, 0, Omitted, None, None, None,
                         "", InvalidRegister, None, FALSE)
    /\ UNCHANGED <<registers, cache, computed, other>>

\* cpu.control_unit(instruction, reg_a_index, reg_b_index, dest_reg_index)
control_unit(instruction, reg_a_index, reg_b_index, dest_reg_index) ==
    /\ steps' = steps + 1
    /\ IF ~ListIndexOK(reg_a_index) \/ ~ListIndexOK(reg_b_index)
       THEN \* lines 30-31: the fetch raises IndexError
            /\ last' = Call("control_unit", instruction, reg_a_index, reg_b_index,
                            dest_reg_index, None,
                            IF ListIndexOK(reg_a_index)
                            THEN registers[ListSlot(reg_a_index)] ELSE None,
                            None, "", IndexError, None, FALSE)
            /\ UNCHANGED <<registers, cache, computed>>
       ELSE LET val_a == registers[ListSlot(reg_a_index)]
                val_b == registers[ListSlot(reg_b_index)]
                cache_key == CacheKey(instruction, val_a, val_b)
                hit == CacheHas(cache, cache_key)
                signal == IF hit THEN "Cache Hit" ELSE "Cache Miss"
                alu == IF hit THEN Return(cache[cache_key])
                       ELSE _alu_dispatch(instruction, val_a, val_b)
                target_reg == TargetReg(dest_reg_index, reg_a_index)
            IN  /\ hit \/ Computable(instruction, val_a, val_b)
                /\ IF alu.err /= OK
                   THEN \* line 41: the ALU raises; lines 44-50 are not reached
                        /\ last' = Call("control_unit", instruction, reg_a_index,
                                        reg_b_index, dest_reg_index, None, val_a, val_b,
                                        signal, alu.err, None, ~hit)
                        /\ UNCHANGED <<registers, cache, computed>>
                   ELSE /\ cache' = IF hit THEN cache
                                    ELSE CacheStore(cache, cache_key, alu.val)
                        /\ IF ListIndexOK(target_reg)
                           THEN /\ registers' = ListStore(registers, target_reg, alu.val)
                                /\ computed' =
                                      IF hit \/ CacheHas(computed, cache_key) THEN computed
                                      ELSE CacheStore(computed, cache_key, alu.val)
                                /\ last' = Call("control_unit", instruction, reg_a_index,
                                                reg_b_index, dest_reg_index, None,
                                                val_a, val_b, signal, OK, alu.val, ~hit)
                           ELSE \* line 49: the write-back raises IndexError
                                /\ last' = Call("control_unit", instruction, reg_a_index,
                                                reg_b_index, dest_reg_index, None,
                                                val_a, val_b, signal, IndexError, None,
                                                ~hit)
                                /\ UNCHANGED <<registers, computed>>
    /\ other' = OtherAfter(registers', cache')

(***************************************************************************)
(* The caller: the calls explored.                                         *)
(***************************************************************************)
LoadIndexes == {-1, 0, 1, 2, 3, 4}
LoadValues == {PyInt(0), PyInt(2), PyInt(3)}
ReadIndexes == {-1, 0, 1, 2, 3, 4}

\* Every instruction name, on registers 0 and 1, into regA or into register 2.
OperandCalls ==
    { <<i, 0, 1, d>> : i \in Wired \cup Unwired, d \in {Omitted, Given(2)} }

\* A few instructions over a variety of register indices.
IndexCalls ==
    { <<i, t[1], t[2], t[3]>> :
        i \in {"ADD", "DIV", "SQRT"},
        t \in { <<-1, 0, Omitted>>, <<4, 0, Omitted>>, <<-5, 1, Given(2)>>,
                <<0, -1, Given(2)>>, <<0, 4, Given(2)>>,
                <<0, 1, Given(4)>>, <<0, 1, Given(-1)>>, <<0, 1, Given(-5)>>,
                <<1, 0, Given(0)>>, <<2, 3, Given(0)>> } }

ControlUnitCalls == OperandCalls \cup IndexCalls

Load == steps < MaxSteps /\ \E i \in LoadIndexes, v \in LoadValues : load(i, v)

Read == steps < MaxSteps /\ \E i \in ReadIndexes : get_register(i)

Execute ==
    steps < MaxSteps /\ \E c \in ControlUnitCalls : control_unit(c[1], c[2], c[3], c[4])

Next == Load \/ Read \/ Execute

Spec == Init /\ [][Next]_vars

(***************************************************************************)
(* Vocabulary of the properties.                                           *)
(***************************************************************************)
\* The documented register range [0, 4).
InRange(i) == i \in Slots

IsExecute == last.call = "control_unit"

\* The destination the last control_unit call resolved.
LastTarget == TargetReg(last.dest_reg_index, last.reg_a_index)

\* The key the last control_unit call looked up (when it fetched both operands).
LastFetched == IsExecute /\ last.val_a /= None /\ last.val_b /= None
LastKey == CacheKey(last.instruction, last.val_a, last.val_b)

\* The last call left registers and cache as it found them.
NoMutation == registers = last.registers /\ cache = last.cache

(***************************************************************************)
(* C1.  A control_unit call that fails because regA, regB or the resolved  *)
(* destReg is outside [0,4) mutates nothing: all four registers and the    *)
(* whole cache are the same after the failed call as before it.            *)
(* (That every such call does fail is C2.)                                 *)
(* Fails on the code: the destination is only looked at on line 49, after  *)
(* line 44 has stored the result of a miss in the cache.                   *)
(***************************************************************************)
C1_FailedIndexCallUnchanged ==
    ( /\ IsExecute
      /\ ~(/\ InRange(last.reg_a_index)
           /\ InRange(last.reg_b_index)
           /\ InRange(LastTarget))
      /\ last.outcome /= OK )
    => NoMutation

(***************************************************************************)
(* C2.  control_unit fails with the invalid-register-index error exactly   *)
(* when regA, regB or the resolved destReg is not one of 0..3.             *)
(* Fails on the code: Python list indexing accepts -4..-1.                 *)
(***************************************************************************)
C2_IndexErrorIffOutOfRange ==
    IsExecute =>
        ((last.outcome = IndexError)
            <=> ~(/\ InRange(last.reg_a_index)
                  /\ InRange(last.reg_b_index)
                  /\ InRange(LastTarget)))

(***************************************************************************)
(* C3.  Two control_unit calls in a row with the same arguments.           *)
(***************************************************************************)
\* This step is a control_unit call repeating the arguments of the successful
\* control_unit call just before it, with regA and regB in range.
RepeatStep ==
    /\ steps' = steps + 1
    /\ last'.repeat
    /\ InRange(last.reg_a_index)
    /\ InRange(last.reg_b_index)

\* The repeated call returns what the first returned, leaves the registers as
\* the first left them, and is a cache hit.
RepeatIsIdempotent ==
    /\ last'.outcome = OK
    /\ last'.result = last.result
    /\ registers' = registers
    /\ last'.signal = "Cache Hit"

\* The first call left the values of regA and regB as it fetched them.
OperandsKept ==
    /\ Num(registers[last.reg_a_index]) = Num(last.val_a)
    /\ Num(registers[last.reg_b_index]) = Num(last.val_b)

\* C3 as claimed: calling control_unit twice in a row with the same
\* (instruction, regA, regB), destination explicit or defaulted, returns the
\* same result, leaves the same registers, and the second call is a hit.
\* Fails on the code: the default destination is regA, so the first call
\* changes the operand and the second call looks up another key.
C3_RepeatIdempotent == [][RepeatStep => RepeatIsIdempotent]_vars

\* C3 as amended: the same conclusion whenever the first call left the values
\* in regA and regB unchanged (as it does when the destination is a register
\* other than regA and regB).
C3_RepeatIdempotentWhenOperandsKept ==
    [][(RepeatStep /\ OperandsKept) => RepeatIsIdempotent]_vars

\* C3 witness: a repeated call with an explicit destination hit the cache and
\* returned a non-zero result.
C3_Witness ==
    /\ last.repeat
    /\ InRange(last.reg_a_index) /\ InRange(last.reg_b_index)
    /\ last.dest_reg_index /= Omitted
    /\ last.signal = "Cache Hit"
    /\ last.outcome = OK
    /\ ~IsZero(last.result)

(***************************************************************************)
(* C4.  After a successful control_unit call that fetched a and b, the     *)
(* cache maps (instruction, a, b) to exactly the returned value, and every *)
(* other key is present or absent, with the same value, as before the      *)
(* call: a hit changes nothing, a miss adds exactly that one key.          *)
(***************************************************************************)
C4_CacheCorrect ==
    (IsExecute /\ last.outcome = OK) =>
        LET key == <<last.instruction, Num(last.val_a), Num(last.val_b)>> IN
        /\ key \in DOMAIN cache
        /\ cache[key] = last.result
        /\ DOMAIN cache \ {key} = DOMAIN last.cache \ {key}
        /\ \A k \in DOMAIN cache \ {key} : cache[k] = last.cache[k]
        /\ (last.signal = "Cache Hit") => cache = last.cache
        /\ (last.signal = "Cache Miss") => key \notin DOMAIN last.cache

\* C4 witness: a successful miss that added its key to a cache already holding
\* another entry.
C4_Witness ==
    /\ IsExecute /\ last.outcome = OK /\ last.signal = "Cache Miss"
    /\ DOMAIN last.cache /= {}
    /\ Num(last.val_a) /= Num(last.val_b)

(***************************************************************************)
(* C5.  Once a successful control_unit call has computed (instruction, a,  *)
(* b), every later call that fetches the same instruction and operand      *)
(* values is a cache hit that returns the originally computed result.      *)
(* Fails on the code: such a call with an out-of-range destination hits    *)
(* the cache and then raises IndexError on line 49 instead of returning    *)
(* (the missing validation of C2).                                         *)
(***************************************************************************)
C5_LaterCallsHitAndReturn ==
    [][ LET key == CacheKey(last'.instruction, last'.val_a, last'.val_b) IN
        ( /\ steps' = steps + 1
          /\ last'.call = "control_unit"
          /\ last'.val_a /= None /\ last'.val_b /= None
          /\ CacheHas(computed, key) )
        => ( /\ last'.signal = "Cache Hit"
             /\ last'.outcome = OK
             /\ last'.result = computed[key] ) ]_vars

(***************************************************************************)
(* C6.  Every call of load, get_register or control_unit, successful or    *)
(* failed, keeps each key already in the cache, with the same value.       *)
(***************************************************************************)
C6_CachePermanent ==
    \A k \in DOMAIN last.cache : k \in DOMAIN cache /\ cache[k] = last.cache[k]

\* C6 witness: a miss stored a new entry next to two older ones.
C6_Witness ==
    /\ IsExecute /\ last.signal = "Cache Miss" /\ last.outcome = OK
    /\ Cardinality(DOMAIN last.cache) >= 2
    /\ Cardinality(DOMAIN cache) > Cardinality(DOMAIN last.cache)

(***************************************************************************)
(* C7.  With regA, regB and the destination in 0..3, DIV and MOD fail with *)
(* the divide-by-zero error exactly when the value in regB is 0; after the *)
(* failure the registers are unchanged and the cache has no entry for the  *)
(* failing key.                                                            *)
(***************************************************************************)
C7_DivideByZero ==
    ( /\ IsExecute
      /\ last.instruction \in {"DIV", "MOD"}
      /\ InRange(last.reg_a_index) /\ InRange(last.reg_b_index)
      /\ InRange(LastTarget) )
    => /\ (last.outcome = DivideByZero) <=> IsZero(last.registers[last.reg_b_index])
       /\ (last.outcome = DivideByZero) =>
             /\ registers = last.registers
             /\ <<last.instruction, Num(last.val_a), <<0, 1>>>> \notin DOMAIN cache

\* C7 witness: MOD of a non-zero value by zero failed while the cache already
\* held entries.
C7_Witness ==
    /\ IsExecute /\ last.instruction = "MOD"
    /\ last.outcome = DivideByZero
    /\ ~IsZero(last.val_a)
    /\ DOMAIN cache /= {}

(***************************************************************************)
(* C8.  An instruction name outside the eight wired ones.                  *)
(***************************************************************************)
\* C8 as claimed: every such call fails with the unknown-instruction error
\* and changes no register and no cache entry.
\* Fails: with regA or regB out of range the fetch raises IndexError first.
C8_UnknownInstruction ==
    (IsExecute /\ last.instruction \notin Wired)
        => (last.outcome = UnknownInstruction /\ NoMutation)

\* C8 as amended: every such call changes no register and no cache entry, and
\* it fails with the unknown-instruction error whenever regA and regB are in
\* 0..3 (whatever the destination).
C8_UnknownInstructionInRange ==
    (IsExecute /\ last.instruction \notin Wired)
        => /\ NoMutation
           /\ last.outcome /= OK
           /\ (InRange(last.reg_a_index) /\ InRange(last.reg_b_index))
                 => last.outcome = UnknownInstruction

\* C8 witness: SQRT was refused on a machine whose cache is not empty.
C8_Witness ==
    /\ IsExecute /\ last.instruction = "SQRT"
    /\ InRange(last.reg_a_index) /\ InRange(last.reg_b_index)
    /\ last.outcome = UnknownInstruction
    /\ DOMAIN cache /= {}

(***************************************************************************)
(* C9.  load and get_register succeed for every index in 0..3 and fail for *)
(* every other index (-1 and 4 included); a failed call leaves registers   *)
(* and cache unchanged.                                                    *)
(***************************************************************************)
C9_LoadReadRange ==
    (last.call \in {"load", "get_register"})
        => /\ (last.outcome = OK) <=> InRange(last.reg_a_index)
           /\ (last.outcome /= OK) => NoMutation

\* C9 witness: load(-1, v) with v non-zero was refused on a machine with a
\* non-empty cache.
C9_Witness ==
    /\ last.call = "load" /\ last.reg_a_index = -1 /\ ~IsZero(last.value)
    /\ last.outcome = InvalidRegister
    /\ DOMAIN cache /= {}

(***************************************************************************)
(* C10.  The value a successful control_unit call returns, and writes to   *)
(* the destination register, equals the operation table's result on the    *)
(* operand values (ADD a+b, SUB a-b, MUL a*b, MOD a mod b, POW a^b, AND    *)
(* and OR bitwise; non-negative integer operands), hit or miss.            *)
(***************************************************************************)
\* Bitwise AND (and = TRUE) or OR of naturals x, y, from bit i upwards.
RECURSIVE TableBits(_, _, _, _)
TableBits(and, x, y, i) ==
    IF 2^i > x /\ 2^i > y THEN 0
    ELSE LET bx == (x \div 2^i) % 2
             by == (y \div 2^i) % 2
             bit == IF and THEN bx * by ELSE (IF bx + by > 0 THEN 1 ELSE 0)
         IN  bit * 2^i + TableBits(and, x, y, i + 1)

\* Section 4.2 of the specification, on naturals.
OperationTable(instruction, a, b) ==
    CASE instruction = "ADD" -> a + b
      [] instruction = "SUB" -> a - b
      [] instruction = "MUL" -> a * b
      [] instruction = "MOD" -> a % b
      [] instruction = "POW" -> IF b = 0 THEN 1 ELSE a^b
      [] instruction = "AND" -> TableBits(TRUE, a, b, 0)
      [] instruction = "OR" -> TableBits(FALSE, a, b, 0)

NaturalNumber(v) == v.d = 1 /\ v.n >= 0

\* C10: a successful call on natural operands returns, and writes to its
\* destination, the operation table's result.
C10_ResultIsOperationTable ==
    ( /\ IsExecute /\ last.outcome = OK
      /\ last.instruction \in {"ADD", "SUB", "MUL", "MOD", "POW", "AND", "OR"}
      /\ NaturalNumber(last.val_a) /\ NaturalNumber(last.val_b) )
    => /\ Num(last.result)
            = <<OperationTable(last.instruction, last.val_a.n, last.val_b.n), 1>>
       /\ registers[ListSlot(LastTarget)] = last.result

\* C10 witness: a cache hit returned a non-zero SUB result.
C10_Witness ==
    /\ IsExecute /\ last.outcome = OK /\ last.signal = "Cache Hit"
    /\ last.instruction = "SUB"
    /\ ~IsZero(last.result)

(***************************************************************************)
(* C11.  A successful control_unit call without an explicit destination    *)
(* writes its result into register regA; a call with an explicit destReg,  *)
(* an explicit 0 included, writes it into destReg.                         *)
(***************************************************************************)
C11_DestinationDefault ==
    (IsExecute /\ last.outcome = OK) =>
        /\ (last.dest_reg_index = Omitted)
              => registers[ListSlot(last.reg_a_index)] = last.result
        /\ (last.dest_reg_index /= Omitted)
              => registers[ListSlot(last.dest_reg_index[1])] = last.result

\* C11 witness: an explicit destination 0, with regA another register, received
\* a result that register 0 did not hold before.
C11_Witness ==
    /\ IsExecute /\ last.outcome = OK
    /\ last.dest_reg_index = Given(0)
    /\ last.reg_a_index /= 0
    /\ last.registers[0] /= last.result
    /\ registers[0] = last.result

(***************************************************************************)
(* C12.  A successful control_unit call changes at most the one register   *)
(* destReg: every other register, regA and regB included when they differ  *)
(* from destReg, holds the value it held before the call.                  *)
(***************************************************************************)
C12_OnlyDestinationChanges ==
    (IsExecute /\ last.outcome = OK) =>
        \A i \in Slots :
            (i /= ListSlot(LastTarget)) => registers[i] = last.registers[i]

\* C12 witness: the result went to a register other than regA and regB, whose
\* non-zero values stayed.
C12_Witness ==
    /\ IsExecute /\ last.outcome = OK
    /\ InRange(last.reg_a_index) /\ InRange(last.reg_b_index)
    /\ ListSlot(LastTarget) \notin {last.reg_a_index, last.reg_b_index}
    /\ registers[ListSlot(LastTarget)] /= last.registers[ListSlot(LastTarget)]
    /\ ~IsZero(registers[last.reg_a_index])
    /\ ~IsZero(registers[last.reg_b_index])

(***************************************************************************)
(* The driver (script.py lines 108-139): two loads, ADD into register 2,   *)
(* the same ADD again, MUL into register 3, ADD of registers 2 and 3 into  *)
(* register 0.  steps is the driver's position; the two loaded values      *)
(* range over DriverValues, which holds the literals 10 and 5.             *)
(***************************************************************************)
DriverValues == {PyInt(0), PyInt(2), PyInt(3), PyInt(5), PyInt(10)}

Main ==
    \/ steps = 0 /\ \E v \in DriverValues : load(0, v)
    \/ steps = 1 /\ \E v \in DriverValues : load(1, v)
    \/ steps = 2 /\ control_unit("ADD", 0, 1, Given(2))
    \/ steps = 3 /\ control_unit("ADD", 0, 1, Given(2))
    \/ steps = 4 /\ control_unit("MUL", 0, 1, Given(3))
    \/ steps = 5 /\ control_unit("ADD", 2, 3, Given(0))

SpecMain == Init /\ [][Main]_vars

(***************************************************************************)
(* C13.  The canonical scenario: from a fresh machine, load(0,10) and      *)
(* load(1,5) give registers [10,5,0,0]; ADD 0 1 -> 2 returns 15 as a miss, *)
(* registers [10,5,15,0], cache {(ADD,10,5): 15}; the same call again      *)
(* returns 15 as a hit, registers unchanged; MUL 0 1 -> 3 returns 50,      *)
(* registers [10,5,15,50]; ADD 2 3 -> 0 returns 65, registers [65,5,15,50].*)
(***************************************************************************)
Regs(r0, r1, r2, r3) ==
    [i \in Slots |-> PyInt(IF i = 0 THEN r0 ELSE IF i = 1 THEN r1
                           ELSE IF i = 2 THEN r2 ELSE r3)]

\* The driver loaded 10 and 5 (registers 0 and 1 keep them until the last call).
Canonical ==
    /\ steps >= 3
    /\ last.registers[0] = PyInt(10)
    /\ last.registers[1] = PyInt(5)

\* C13: the scenario's results, signals, registers and cache, call by call.
C13_CanonicalScenario ==
    /\ (steps = 0) => (registers = Regs(0, 0, 0, 0) /\ cache = EmptyDict)
    /\ (steps = 2 /\ last.registers[0] = PyInt(10) /\ last.value = PyInt(5))
          => registers = Regs(10, 5, 0, 0)
    /\ (steps = 3 /\ Canonical)
          => /\ last.outcome = OK /\ last.result = PyInt(15)
             /\ last.signal = "Cache Miss"
             /\ registers = Regs(10, 5, 15, 0)
             /\ cache = [k \in {<<"ADD", <<10, 1>>, <<5, 1>>>>} |-> PyInt(15)]
    /\ (steps = 4 /\ Canonical)
          => /\ last.outcome = OK /\ last.result = PyInt(15)
             /\ last.signal = "Cache Hit"
             /\ registers = Regs(10, 5, 15, 0)
             /\ registers = last.registers
    /\ (steps = 5 /\ Canonical)
          => /\ last.outcome = OK /\ last.result = PyInt(50)
             /\ registers = Regs(10, 5, 15, 50)
    /\ (steps = 6 /\ Canonical)
          => /\ last.outcome = OK /\ last.result = PyInt(65)
             /\ registers = Regs(65, 5, 15, 50)

\* C13 witness: the canonical run reached the end of the driver.
C13_Witness ==
    /\ steps = 6 /\ Canonical
    /\ last.instruction = "ADD" /\ last.dest_reg_index = Given(0)
    /\ last.outcome = OK

(***************************************************************************)
(* C14.  get_register changes neither registers nor cache; a successful    *)
(* load(index, value) sets register index to value and changes no other    *)
(* register and no cache entry; registers change only in load and          *)
(* control_unit, the cache only in control_unit.                           *)
(***************************************************************************)
LoadSucceeded == last.call = "load" /\ last.outcome = OK

\* C14: the frame of get_register and load, and who may change what.
C14_ReadLoadFrame ==
    /\ (last.call = "get_register") => NoMutation
    /\ LoadSucceeded =>
          /\ InRange(last.reg_a_index)
          /\ registers[last.reg_a_index] = last.value
          /\ \A i \in Slots :
                (i /= last.reg_a_index) => registers[i] = last.registers[i]
          /\ cache = last.cache
    /\ (registers /= last.registers) => last.call \in {"load", "control_unit"}
    /\ (cache /= last.cache) => last.call = "control_unit"

\* C14 witness: a load that overwrote a register while the cache held an entry.
C14_Witness ==
    /\ LoadSucceeded
    /\ registers[last.reg_a_index] /= last.registers[last.reg_a_index]
    /\ \E i \in Slots : i /= last.reg_a_index /\ ~IsZero(registers[i])
    /\ cache /= EmptyDict

(***************************************************************************)
(* Two CPU objects.  The caller works on one of them at a time; switching  *)
(* makes the second object the one the calls go to.                        *)
(***************************************************************************)
Switch ==
    /\ steps < MaxSteps
    /\ steps' = steps + 1
    /\ registers' = other.registers
    /\ cache' = other.cache
    /\ other' = [ registers |-> registers, cache |-> cache ]
    /\ last' = Call("switch", "", 0, 0, Omitted, None, None, None, "", OK, None, FALSE)
    /\ UNCHANGED computed

NextTwo == Load \/ Read \/ Execute \/ Switch

SpecTwo == Init /\ [][NextTwo]_vars

(***************************************************************************)
(* C15.  Two instances are independent: a load, get_register or            *)
(* control_unit call on one leaves the registers and the cache of the      *)
(* other as they were, so a key one instance has cached is still a miss on *)
(* the other.                                                              *)
(***************************************************************************)
\* C15: every call on one instance leaves the other instance unchanged.
C15_InstancesIndependent ==
    [][ (last'.call /= "switch") => (other' = other) ]_vars

\* C15 witness: a miss on a key that the other instance holds in its cache,
\* which left that instance's cache and registers alone.
C15_Witness ==
    /\ IsExecute /\ last.outcome = OK
    /\ last.signal = "Cache Miss"
    /\ LastKey \in DOMAIN other.cache
    /\ registers /= other.registers

(***************************************************************************)
(* The float a / b of line 86.  A float is an IEEE-754 double: 53          *)
(* significant bits, round to nearest.  For positive integers A and B the  *)
(* double nearest A/B is M / 2^Shift, where Shift puts 53 bits before the  *)
(* point and M is the integer nearest A * 2^Shift / B.  RoundOff is        *)
(* M * B - A * 2^Shift, so that (double of A/B) * B = A + RoundOff/2^Shift *)
(* as real numbers.  Only remainders modulo B are ever computed.           *)
(***************************************************************************)
MantissaBits == 53

\* floor(log2(x / y)) for positive integers x and y.
RECURSIVE Log2(_, _)
Log2(x, y) ==
    IF x >= 2 * y THEN Log2(x, 2 * y) + 1
    ELSE IF x < y THEN Log2(2 * x, y) - 1
    ELSE 0

\* 2^s modulo m.
RECURSIVE PowMod(_, _)
PowMod(s, m) == IF s = 0 THEN 1 % m ELSE (2 * PowMod(s - 1, m)) % m

Shift(A, B) == (MantissaBits - 1) - Log2(A, B)

\* (A remainder of exactly B/2 would be a tie; with Shift >= 47 and B far below
\* 2^47 a quotient that close to a double is a double, and the remainder is 0.)
RoundOff(A, B) ==
    LET rem == (A * PowMod(Shift(A, B), B)) % B
    IN  IF 2 * rem <= B THEN -rem ELSE B - rem

\* The two loaded operands range over -3 .. MaxOperand.
MaxOperand == 16
DivValues == { PyInt(k) : k \in -3 .. MaxOperand }

\* Two loads, a DIV into register 2, the same DIV again into register 3.
MainDiv ==
    \/ steps = 0 /\ \E v \in DivValues : load(0, v)
    \/ steps = 1 /\ \E v \in DivValues : load(1, v)
    \/ steps = 2 /\ control_unit("DIV", 0, 1, Given(2))
    \/ steps = 3 /\ control_unit("DIV", 0, 1, Given(3))

SpecDiv == Init /\ [][MainDiv]_vars

(***************************************************************************)
(* C16.  DIV yields the real-valued quotient, never the truncated one: for *)
(* integer operands a, b (b /= 0) that do not divide evenly the result r   *)
(* satisfies r * b = a, and r is the value cached and written back.        *)
(***************************************************************************)
\* x <= 2^j for an integer x >= 0 and any integer j.
LePow(x, j) == IF j >= 0 THEN x <= 2^j ELSE x * 2^(-j) <= 1

\* r * b == a in Python, for a float or int r whose exact quotient times the
\* int b is the int a: the real product misses a by RoundOff / 2^Shift, and
\* the multiplication rounds it to a double again.  It comes out as a when
\* the miss is at most half the gap between a and the next double on that
\* side (the gap below a power of two is half the gap above it).
TimesIs(r, b, a) ==
    IF r.n * b.n /= a.n * r.d THEN FALSE
    ELSE IF r.t = "int" \/ r.n = 0 THEN TRUE
    ELSE LET A == Abs(r.n)
             rho == (Abs(b.n) \div r.d) * RoundOff(A, r.d)
             j == Log2(Abs(a.n), 1) - Log2(A, r.d) - 1
         IN  IF rho >= 0 THEN LePow(rho, j)
             ELSE IF IsPow2(Abs(a.n)) THEN LePow(-rho, j - 1)
             ELSE LePow(-rho, j)

\* The last call was a successful DIV of two ints.
DivDone ==
    /\ IsExecute /\ last.instruction = "DIV" /\ last.outcome = OK
    /\ last.val_a.t = "int" /\ last.val_b.t = "int"

DividesEvenly == last.val_a.n % Abs(last.val_b.n) = 0

\* The quotient truncated to an integer (toward zero).
Truncated ==
    LET q == Abs(last.val_a.n) \div Abs(last.val_b.n)
    IN  IF (last.val_a.n < 0) /= (last.val_b.n < 0) THEN -q ELSE q

DivKept ==
    /\ LastKey \in DOMAIN cache
    /\ cache[LastKey] = last.result
    /\ registers[ListSlot(LastTarget)] = last.result

Aborted == IsExecute /\ last.outcome \in {UnknownInstruction, DivideByZero}

\* C17: the signal of every call that reached the lookup.
C17_SignalReflectsCache ==
    /\ LastFetched =>
          /\ (last.signal = "Cache Hit") <=> (LastKey \in DOMAIN last.cache)
          /\ (last.signal = "Cache Miss") <=> (LastKey \notin DOMAIN last.cache)
          /\ (last.signal = "Cache Hit") => ~last.dispatched
    /\ Aborted => (LastFetched /\ last.signal = "Cache Miss")

\* C17 witness: a division by zero that printed "Cache Miss" on a cache that
\* already held entries.
C17_Witness ==
    /\ IsExecute /\ last.outcome = DivideByZero
    /\ last.signal = "Cache Miss" /\ last.dispatched
    /\ last.cache /= EmptyDict
    /\ cache = last.cache

(***************************************************************************)
(* C18.  Cache soundness: in every reachable state, failed calls included, *)
(* every cache entry (op, a, b) -> v has op among the eight supported      *)
(* instructions, v equal to the operation table's result of op on (a, b),  *)
(* and is never a DIV or MOD entry with b = 0.                             *)
(***************************************************************************)
\* An int as the 8-bit two's complement pattern the model's magnitudes fit in.
Pattern(x) == x % 256

\* x to the power e >= 0 (anything to the power 0 is 1).
TablePower(x, e) == IF e = 0 THEN 1 ELSE x^e

\* v is the operation table's result of op on the key's operands a = <<n, d>>
\* and b = <<n, d>>, checked as a relation between rationals.
TableResult(op, a, b, v) ==
    CASE op = "ADD" -> v.n * a[2] * b[2] = (a[1] * b[2] + b[1] * a[2]) * v.d
      [] op = "SUB" -> v.n * a[2] * b[2] = (a[1] * b[2] - b[1] * a[2]) * v.d
      [] op = "MUL" -> v.n * a[2] * b[2] = a[1] * b[1] * v.d
      [] op = "DIV" -> b[1] /= 0 /\ v.n * a[2] * b[1] = a[1] * b[2] * v.d
      [] op = "MOD" ->
            /\ b[1] /= 0
            /\ ((a[1] * v.d - v.n * a[2]) * b[2]) % Abs(a[2] * v.d * b[1]) = 0
            /\ IF b[1] > 0 THEN v.n >= 0 /\ v.n * b[2] < b[1] * v.d
               ELSE v.n <= 0 /\ v.n * b[2] > b[1] * v.d
      [] op = "POW" ->
            /\ b[2] = 1
            /\ IF b[1] >= 0
               THEN v.n * TablePower(a[2], b[1]) = TablePower(a[1], b[1]) * v.d
               ELSE /\ a[1] /= 0
                    /\ v.n * TablePower(a[1], -b[1]) = TablePower(a[2], -b[1]) * v.d
      [] op = "AND" ->
            /\ a[2] = 1 /\ b[2] = 1 /\ v.d = 1
            /\ Pattern(v.n) = TableBits(TRUE, Pattern(a[1]), Pattern(b[1]), 0)
            /\ (v.n < 0) <=> (a[1] < 0 /\ b[1] < 0)
      [] op = "OR" ->
            /\ a[2] = 1 /\ b[2] = 1 /\ v.d = 1
            /\ Pattern(v.n) = TableBits(FALSE, Pattern(a[1]), Pattern(b[1]), 0)
            /\ (v.n < 0) <=> (a[1] < 0 \/ b[1] < 0)
      [] OTHER -> FALSE

\* C18: every entry of the cache is a supported instruction with its table
\* result, and none is a DIV or MOD by zero.
C18_CacheSound ==
    \A k \in DOMAIN cache :
        /\ k[1] \in {"ADD", "SUB", "MUL", "DIV", "MOD", "POW", "AND", "OR"}
        /\ ~(k[1] \in {"DIV", "MOD"} /\ k[3][1] = 0)
        /\ TableResult(k[1], k[2], k[3], cache[k])

\* C18 witness: after a failed call the cache holds a DIV entry with a non-zero
\* divisor next to an entry of another instruction.
C18_Witness ==
    /\ IsExecute /\ last.outcome /= OK
    /\ \E k \in DOMAIN cache : k[1] = "DIV" /\ k[3][1] /= 0
    /\ \E k \in DOMAIN cache : k[1] /= "DIV"

====
